---- MODULE Spec2Model ----
(***************************************************************************)
(* State-machine model of the ESP32 NVS decoder (nvs_read.py) and of the   *)
(* CSV encoder (generate_nvs_csv.py).                                      *)
(*                                                                         *)
(* Text (keys, namespace names, decoded strings, hex strings) is a         *)
(* sequence of character codes; raw bytes are sequences of 0..255.         *)
(* The partition file is read lazily: what a read returns is drawn when    *)
(* the code performs the read.  Every slot of a page is read at most once, *)
(* either as an entry header or as a continuation slot, so the lazy draw   *)
(* describes a fixed file.                                                 *)
(***************************************************************************)
EXTENDS Integers, Sequences, FiniteSets, TLC

(* ---------------- bounds of the model ---------------- *)

\* Slots of a page that the model scans (the source scans 126).
NumSlots == 3
\* Largest number of pages in the input file.
MaxPages == 2
\* Largest number of entries the input file decodes to.
MaxEntries == 3

(* ---------------- program constants ---------------- *)

PageSize == 4096
HeaderSize == 32
BitmapSize == 32
SlotSize == 32
MaxDeclaredSize == 4032
Written == 2

(* ---------------- text helpers ---------------- *)

Range(s) == {s[k] : k \in DOMAIN s}

RECURSIVE Flatten(_)
Flatten(ss) == IF ss = <<>> THEN <<>> ELSE Head(ss) \o Flatten(Tail(ss))

\* First n elements of s (Python s[:n], n >= 0).
Take(s, n) == IF n >= Len(s) THEN s ELSE SubSeq(s, 1, n)

\* str(n) for n >= 0, as character codes.
RECURSIVE DecStr(_)
DecStr(n) == IF n < 10 THEN <<48 + n>> ELSE DecStr(n \div 10) \o <<48 + (n % 10)>>

\* int(s) for a string of decimal digits.
RECURSIVE IntOf(_)
IntOf(s) ==
    IF Len(s) = 0 THEN 0
    ELSE 10 * IntOf(SubSeq(s, 1, Len(s) - 1)) + (s[Len(s)] - 48)

\* bytes.rstrip(b'\x00')
RECURSIVE RStripNul(_)
RStripNul(b) ==
    IF Len(b) > 0 /\ b[Len(b)] = 0 THEN RStripNul(SubSeq(b, 1, Len(b) - 1)) ELSE b

IsAscii(c) == c < 128

\* bytes.decode('ascii', errors='ignore')
AsciiIgnore(b) == SelectSeq(b, IsAscii)

HexDigits == <<48, 49, 50, 51, 52, 53, 54, 55, 56, 57, 97, 98, 99, 100, 101, 102>>

\* bytes.hex()
Hex(b) == Flatten([k \in 1..Len(b) |-> <<HexDigits[(b[k] \div 16) + 1], HexDigits[(b[k] % 16) + 1]>>])

HexVal(c) == (CHOOSE d \in 1..16 : HexDigits[d] = c) - 1

\* bytes.fromhex()
FromHex(h) == [k \in 1..(Len(h) \div 2) |-> 16 * HexVal(h[2 * k - 1]) + HexVal(h[2 * k])]

\* struct.unpack of a little-endian unsigned integer.
RECURSIVE UnpackU(_)
UnpackU(b) == IF b = <<>> THEN 0 ELSE Head(b) + 256 * UnpackU(Tail(b))

RECURSIVE Pow256(_)
Pow256(n) == IF n = 0 THEN 1 ELSE 256 * Pow256(n - 1)

\* struct.unpack of a little-endian signed integer.
UnpackS(b) ==
    IF b[Len(b)] >= 128 THEN UnpackU(b) - Pow256(Len(b)) ELSE UnpackU(b)

(* ---------------- tables of nvs_read.py ---------------- *)

nvs_types ==
    (1 :> "U8") @@ (17 :> "I8") @@ (2 :> "U16") @@ (18 :> "I16") @@
    (4 :> "U32") @@ (20 :> "I32") @@ (8 :> "U64") @@ (24 :> "I64") @@
    (33 :> "STR") @@ (65 :> "BLOB") @@ (66 :> "BLOB_DATA") @@ (72 :> "BLOB_IDX") @@
    (255 :> "ANY")

\* The 32-bit page state word is kept as its four little-endian bytes.
nvs_sector_states ==
    (<<255, 255, 255, 255>> :> "EMPTY") @@
    (<<254, 255, 255, 255>> :> "ACTIVE") @@
    (<<252, 255, 255, 255>> :> "FULL") @@
    (<<248, 255, 255, 255>> :> "FREEING") @@
    (<<240, 255, 255, 255>> :> "CORRUPT")

PageStateOf(raw) ==
    IF raw \in DOMAIN nvs_sector_states THEN nvs_sector_states[raw] ELSE "Unknown"

System == <<83, 121, 115, 116, 101, 109>>

\* f"NS_{entry_ns}"
FallbackName(ns) == <<78, 83, 95>> \o DecStr(ns)

\* namespaces.get(entry_ns, f"NS_{entry_ns}")
ResolveNamespace(table, ns) ==
    IF ns \in DOMAIN table THEN table[ns] ELSE FallbackName(ns)

\* Variant: a namespace id keeps the first name registered for it.
RegisterNamespaceFirstWins(table, id, name) ==
    [k \in (DOMAIN table) \cup {id} |-> IF k \in DOMAIN table THEN table[k] ELSE name]

\* namespaces[value] = entry_data["key"]
RegisterNamespace(table, id, name) ==
    [k \in (DOMAIN table) \cup {id} |-> IF k = id THEN name ELSE table[k]]

\* Variant: the span is compared with the page size, not with the slots left.
SpanValidWholePage(span, slot) == span >= 1 /\ span <= NumSlots

\* Variant: a span of 0 is accepted.
SpanValidZero(span, slot) == span >= 0 /\ span <= NumSlots - slot

\* entry_span < 1 or entry_span > 126 - i  (negated)
SpanValid(span, slot) == span >= 1 /\ span <= NumSlots - slot

\* size < 0 or size > 4032
Oversized(size) == size < 0 \/ size > MaxDeclaredSize

\* The 2-bit state code of slot entry_num in the raw bitmap.
BitmapCode(bitmap, entry_num) ==
    LET bitnum == entry_num * 2
        temp == bitmap[(bitnum \div 8) + 1]
        shift == 6 - (bitnum % 8)
    IN  (temp \div (IF shift = 6 THEN 64 ELSE IF shift = 4 THEN 16 ELSE IF shift = 2 THEN 4 ELSE 1)) % 4

DecodeBitmap(bitmap) == [n \in 1..NumSlots |-> BitmapCode(bitmap, n - 1)]

(* ---------------- inputs ---------------- *)

\* Bytes of the last page that exist in the file: header cut short, bitmap
\* cut short, one slot, a whole page.
TailIn == {20, 40, 96, PageSize}

FileLenIn == {0} \cup {PageSize * p + t : p \in 0..(MaxPages - 1), t \in TailIn}

StateIn == (DOMAIN nvs_sector_states) \cup {<<0, 0, 0, 0>>}

\* Bitmap bytes: four Written slots; Empty, Erased, code 1, Written.
BitmapByteIn == {170, 198}

BitmapLen == ((NumSlots + 3) \div 4)

BitmapIn == [1..BitmapLen -> BitmapByteIn]

Zero8 == <<0, 0, 0, 0, 0, 0, 0, 0>>

\* Raw 16-byte key fields (shortened): "a", "b", "a" followed by a non-ASCII byte.
KeyA == <<97, 0>>
KeyB == <<98, 0>>
KeyAx == <<97, 194>>

\* The 8 data bytes: 0, 5, 1 (with chunk count 2 and chunk start 1),
\* 4032 (0x0fc0), 4033 (0x0fc1).
D0 == Zero8
D5 == <<5, 0, 0, 0, 0, 0, 0, 0>>
D1 == <<1, 0, 0, 0, 0, 2, 1, 0>>
D4032 == <<192, 15, 0, 0, 0, 0, 0, 0>>
D4033 == <<193, 15, 0, 0, 0, 0, 0, 0>>

Hdr(nss, types, spans, chunks, keys, datas) ==
    [ns : nss, type : types, span : spans, chunk_index : chunks, key : keys, data : datas]

\* Entry headers the input file may hold.
HeaderIn ==
    \* U8 in namespace 0: definitions of namespace 5 and of namespace 0
    Hdr({0}, {1}, {1}, {0}, {KeyA, KeyB}, {D5})
    \cup Hdr({0}, {1}, {0, 1}, {0}, {KeyAx}, {D0})
    \* I32 in namespace 5
    \cup Hdr({5}, {20}, {2, NumSlots + 1}, {0}, {KeyA}, {D4033})
    \* STR, declared size 1 and 4033
    \cup Hdr({5}, {33}, {1}, {0}, {KeyA}, {D1, D4033})
    \cup Hdr({5}, {33}, {2}, {0}, {KeyA}, {D4033})
    \* BLOB_DATA, declared size 4032 and 1
    \cup Hdr({5}, {66}, {2}, {0, 1}, {KeyB}, {D4032})
    \cup Hdr({5}, {66}, {2}, {1}, {KeyB}, {D1})
    \* BLOB with declared size 4033, BLOB_IDX, ANY, an unknown type code
    \cup Hdr({5}, {65}, {2}, {0}, {KeyB}, {D4033})
    \cup Hdr({5}, {72}, {1}, {0}, {KeyB}, {D1})
    \cup Hdr({5}, {255, 0}, {1}, {0}, {KeyA}, {D0})

\* The headers of the scan-only specification: one or two for each way a slot
\* is handled.
ScanHeaderIn ==
    Hdr({0}, {1}, {0, 1}, {0}, {KeyAx}, {D0})
    \cup Hdr({5}, {20}, {2, NumSlots + 1}, {0}, {KeyA}, {D4033})
    \cup Hdr({5}, {33}, {2}, {0}, {KeyA}, {D4033})
    \cup Hdr({5}, {66}, {2}, {1}, {KeyB}, {D1})
    \cup Hdr({5}, {72}, {1}, {0}, {KeyB}, {D1})
    \cup Hdr({5}, {255, 0}, {1}, {0}, {KeyA}, {D0})

\* Raw continuation slots (shortened): "A" followed by a non-ASCII byte.
SlotIn == {<<65, 194>>}

NoEntry == [ns |-> 0, type |-> 0, span |-> 0, chunk_index |-> 0, key |-> <<>>, data |-> <<>>]

(* ---------------- state ---------------- *)

VARIABLES
    file_len,       \* length of the input file in bytes
    pc,             \* position in read_nvs_pages / parse_nvs_entries / main
    sector_pos,     \* read_nvs_pages: offset of the page being read
    page_num,       \* read_nvs_pages: page counter
    page_state,     \* read_nvs_pages: decoded state of the page being read
    namespaces,     \* the namespace table
    result,         \* read_nvs_pages: entries of the pages done
    bitmap,         \* entry_state_bitmap_decoded of the page being parsed
    nentries,       \* len(entries) of the page being parsed
    i,              \* parse_nvs_entries: slot cursor
    entry,          \* parse_nvs_entries: header fields of entries[i]
    page_result,    \* parse_nvs_entries: result
    starts,         \* history: the slot each entry of page_result was read at
    ns_ids,         \* history: the namespace id byte of each entry produced so far
    visited,        \* history: page offsets read so far
    csv_lines,      \* generate_csv: rows after the header row
    blob_files      \* files written by write_blob_file, in order

vars == <<file_len, pc, sector_pos, page_num, page_state, namespaces, result, bitmap,
          nentries, i, entry, page_result, starts, ns_ids, visited, csv_lines, blob_files>>

pageVars == <<bitmap, nentries, i, entry, page_result, starts>>
csvVars == <<csv_lines, blob_files>>
histVars == <<ns_ids, visited>>

Init ==
    /\ file_len \in FileLenIn
    /\ pc = "scan"
    /\ sector_pos = 0
    /\ page_num = 0
    /\ page_state = "none"
    /\ namespaces = (0 :> System)
    /\ result = <<>>
    /\ bitmap = <<>>
    /\ nentries = 0
    /\ i = 0
    /\ entry = NoEntry
    /\ page_result = <<>>
    /\ starts = <<>>
    /\ ns_ids = <<>>
    /\ visited = <<>>
    /\ csv_lines = <<>>
    /\ blob_files = <<>>

\* Bytes of the page at sector_pos that exist in the file.
Avail == IF file_len - sector_pos > PageSize THEN PageSize ELSE file_len - sector_pos

\* The five header reads succeed.
HeaderReadable == Avail >= HeaderSize

\* The bitmap read returns all its bytes.
BitmapReadable == Avail >= HeaderSize + BitmapSize

\* Whole slots the entry reads return.
SlotsRead ==
    LET n == (Avail - HeaderSize - BitmapSize) \div SlotSize
    IN  IF n > NumSlots THEN NumSlots ELSE n

\* Variant: FREEING pages are decoded too.
DecodableFreeing(state) == state \in {"ACTIVE", "FULL", "FREEING"}

\* page_state in ["ACTIVE", "FULL"]
Decodable(state) == state \in {"ACTIVE", "FULL"}

NextPage ==
    /\ sector_pos' = sector_pos + PageSize
    /\ page_num' = page_num + 1
    /\ page_state' = "none"
    /\ pc' = "scan"

\* while sector_pos < file_len: the header is read and the page state decoded.
ReadHeader ==
    /\ pc = "scan"
    /\ sector_pos < file_len
    /\ HeaderReadable
    /\ \E raw \in StateIn : page_state' = PageStateOf(raw)
    /\ pc' = "header"
    /\ visited' = Append(visited, sector_pos)
    /\ UNCHANGED <<file_len, sector_pos, page_num, namespaces, result, pageVars, ns_ids, csvVars>>

\* A header read fails: except Exception.
HeaderError ==
    /\ pc = "scan"
    /\ sector_pos < file_len
    /\ ~HeaderReadable
    /\ NextPage
    /\ visited' = Append(visited, sector_pos)
    /\ UNCHANGED <<file_len, namespaces, result, pageVars, ns_ids, csvVars>>

\* if page_state not in ["ACTIVE", "FULL"]
SkipPage ==
    /\ pc = "header"
    /\ ~Decodable(page_state)
    /\ NextPage
    /\ UNCHANGED <<file_len, namespaces, result, pageVars, histVars, csvVars>>

\* The bitmap is short: indexing it raises, except Exception.
BitmapError ==
    /\ pc = "header"
    /\ Decodable(page_state)
    /\ ~BitmapReadable
    /\ NextPage
    /\ UNCHANGED <<file_len, namespaces, result, pageVars, histVars, csvVars>>

\* The bitmap is decoded, the slots are read, parse_nvs_entries starts.
LoadPage ==
    /\ pc = "header"
    /\ Decodable(page_state)
    /\ BitmapReadable
    /\ \E raw \in BitmapIn : bitmap' = DecodeBitmap(raw)
    /\ nentries' = SlotsRead
    /\ i' = 0
    /\ entry' = NoEntry
    /\ page_result' = <<>>
    /\ starts' = <<>>
    /\ page_state' = "none"
    /\ pc' = "parse"
    /\ UNCHANGED <<file_len, sector_pos, page_num, namespaces, result, histVars, csvVars>>

(* ---------------- parse_nvs_entries ---------------- *)

TypeName(h) == nvs_types[h.type]

FixedWidth ==
    [U8 |-> 1, I8 |-> 1, U16 |-> 2, I16 |-> 2, U32 |-> 4, I32 |-> 4, U64 |-> 8, I64 |-> 8]

IsFixed(t) == t \in DOMAIN FixedWidth

IsVarLen(t) == t \in {"STR", "BLOB", "BLOB_DATA"}

\* struct.unpack("<H", data[0:2])[0]
DeclaredSize(h) == UnpackU(SubSeq(h.data, 1, 2))

\* The fixed-width integer at offset 0 of the data bytes.
FixedValue(t, data) ==
    IF t \in {"I8", "I16", "I32", "I64"}
    THEN UnpackS(SubSeq(data, 1, FixedWidth[t]))
    ELSE UnpackU(SubSeq(data, 1, FixedWidth[t]))

\* b''.join(data_chunks)[:size], decoded as text (STR) or as hex.
VarLenValue(t, h, cont) ==
    LET data_chunks == <<SubSeq(h.data, 9, Len(h.data))>> \o cont
        combined_data == Take(Flatten(data_chunks), DeclaredSize(h))
    IN  IF t = "STR" THEN AsciiIgnore(combined_data) ELSE Hex(combined_data)

\* {"size": size, "chunk_count": chunk_count, "chunk_start": chunk_start}
BlobIdxValue(data) == <<UnpackU(SubSeq(data, 1, 4)), data[6], data[7]>>

\* entry_data; size -1 stands for "no size key".
EntryData(h, table, value, size) ==
    [key |-> AsciiIgnore(RStripNul(h.key)),
     type |-> TypeName(h),
     namespace |-> ResolveNamespace(table, h.ns),
     span |-> h.span,
     chunk_index |-> h.chunk_index,
     value |-> value,
     size |-> size]

\* How far the cursor moves when an oversized declared size is met.
OversizeAdvance(h) == h.span

\* Variant: the cursor moves by one slot after an entry.
SuccessAdvanceOne(h) == 1

\* How far the cursor moves when an entry was appended.
SuccessAdvance(h) == h.span

\* What one pass of the loop body does with the header h read at slot s of a
\* page of n slots.
Classify(h, s, n) ==
    IF h.type \notin DOMAIN nvs_types THEN "unknown_type"
    ELSE IF ~SpanValid(h.span, s) THEN "bad_span"
    ELSE IF IsFixed(TypeName(h)) THEN "fixed"
    ELSE IF IsVarLen(TypeName(h)) THEN
        IF Oversized(DeclaredSize(h)) THEN "oversize"
        ELSE IF s + h.span - 1 >= n THEN "index_error"
        ELSE "varlen"
    ELSE IF TypeName(h) = "BLOB_IDX" THEN "blob_idx"
    ELSE "any"

Produces(h, s, n) == Classify(h, s, n) \in {"fixed", "varlen", "blob_idx"}

Produced == Len(result) + Len(page_result)

Append1(e) ==
    /\ page_result' = Append(page_result, e)
    /\ starts' = Append(starts, i)
    /\ ns_ids' = Append(ns_ids, entry.ns)
    /\ visited' = visited

Skip(n) ==
    /\ i' = i + n
    /\ entry' = NoEntry
    /\ pc' = "parse"

\* if state != 2: i += 1
SlotNotWritten ==
    /\ pc = "parse"
    /\ i < NumSlots
    /\ bitmap[i + 1] # Written
    /\ Skip(1)
    /\ UNCHANGED <<file_len, sector_pos, page_num, page_state, namespaces, result, bitmap,
                   nentries, page_result, starts, histVars, csvVars>>

\* entries[i] of a truncated page raises IndexError: except, i += 1
FetchError ==
    /\ pc = "parse"
    /\ i < NumSlots
    /\ bitmap[i + 1] = Written
    /\ i >= nentries
    /\ Skip(1)
    /\ UNCHANGED <<file_len, sector_pos, page_num, page_state, namespaces, result, bitmap,
                   nentries, page_result, starts, histVars, csvVars>>

\* entry = entries[i] and its header fields, the slot holding a header of H.
\* The file decodes to at most MaxEntries entries: once that many were
\* produced, the remaining Written slots hold headers that produce none.
FetchEntryFrom(H) ==
    /\ pc = "parse"
    /\ i < NumSlots
    /\ bitmap[i + 1] = Written
    /\ i < nentries
    /\ \E h \in H :
          /\ Produced < MaxEntries \/ ~Produces(h, i, nentries)
          /\ entry' = h
    /\ pc' = "decode"
    /\ UNCHANGED <<file_len, sector_pos, page_num, page_state, namespaces, result, bitmap,
                   nentries, i, page_result, starts, histVars, csvVars>>

FetchEntry == FetchEntryFrom(HeaderIn)

ScanFetchEntry == FetchEntryFrom(ScanHeaderIn)

\* if entry_type not in nvs_types: i += 1
UnknownType ==
    /\ pc = "decode"
    /\ Classify(entry, i, nentries) = "unknown_type"
    /\ Skip(1)
    /\ UNCHANGED <<file_len, sector_pos, page_num, page_state, namespaces, result, bitmap,
                   nentries, page_result, starts, histVars, csvVars>>

\* if entry_span < 1 or entry_span > 126 - i: i += 1
BadSpan ==
    /\ pc = "decode"
    /\ Classify(entry, i, nentries) = "bad_span"
    /\ Skip(1)
    /\ UNCHANGED <<file_len, sector_pos, page_num, page_state, namespaces, result, bitmap,
                   nentries, page_result, starts, histVars, csvVars>>

\* The eight integer types; a U8 of namespace 0 also names a namespace.
DecodeFixed ==
    /\ pc = "decode"
    /\ Classify(entry, i, nentries) = "fixed"
    /\ LET value == FixedValue(TypeName(entry), entry.data)
           entry_data == EntryData(entry, namespaces, <<value>>, -1)
       IN  /\ Append1(entry_data)
           /\ namespaces' =
                 IF TypeName(entry) = "U8" /\ entry.ns = 0
                 THEN RegisterNamespace(namespaces, value, entry_data.key)
                 ELSE namespaces
    /\ Skip(SuccessAdvance(entry))
    /\ UNCHANGED <<file_len, sector_pos, page_num, page_state, result, bitmap,
                   nentries, csvVars>>

\* if size < 0 or size > 4032: i += entry_span
DecodeOversize ==
    /\ pc = "decode"
    /\ Classify(entry, i, nentries) = "oversize"
    /\ Skip(OversizeAdvance(entry))
    /\ UNCHANGED <<file_len, sector_pos, page_num, page_state, namespaces, result, bitmap,
                   nentries, page_result, starts, histVars, csvVars>>

\* entries[i + x] of a truncated page raises IndexError: except, i += 1
ContinuationError ==
    /\ pc = "decode"
    /\ Classify(entry, i, nentries) = "index_error"
    /\ Skip(1)
    /\ UNCHANGED <<file_len, sector_pos, page_num, page_state, namespaces, result, bitmap,
                   nentries, page_result, starts, histVars, csvVars>>

\* STR, BLOB, BLOB_DATA: the payload is in the span - 1 slots that follow.
DecodeVarLen ==
    /\ pc = "decode"
    /\ Classify(entry, i, nentries) = "varlen"
    /\ \E cont \in [1..(entry.span - 1) -> SlotIn] :
          Append1(EntryData(entry, namespaces, VarLenValue(TypeName(entry), entry, cont),
                            DeclaredSize(entry)))
    /\ Skip(SuccessAdvance(entry))
    /\ UNCHANGED <<file_len, sector_pos, page_num, page_state, namespaces, result, bitmap,
                   nentries, csvVars>>

DecodeBlobIdx ==
    /\ pc = "decode"
    /\ Classify(entry, i, nentries) = "blob_idx"
    /\ Append1(EntryData(entry, namespaces, BlobIdxValue(entry.data), -1))
    /\ Skip(SuccessAdvance(entry))
    /\ UNCHANGED <<file_len, sector_pos, page_num, page_state, namespaces, result, bitmap,
                   nentries, csvVars>>

\* elif nvs_types[entry_type] == "ANY": i += 1
DecodeAny ==
    /\ pc = "decode"
    /\ Classify(entry, i, nentries) = "any"
    /\ Skip(1)
    /\ UNCHANGED <<file_len, sector_pos, page_num, page_state, namespaces, result, bitmap,
                   nentries, page_result, starts, histVars, csvVars>>

\* The slot loop ends: result.extend(parse_nvs_entries(...)), next page.
EndPage ==
    /\ pc = "parse"
    /\ i >= NumSlots
    /\ result' = result \o page_result
    /\ NextPage
    /\ bitmap' = <<>>
    /\ nentries' = 0
    /\ i' = 0
    /\ entry' = NoEntry
    /\ page_result' = <<>>
    /\ starts' = <<>>
    /\ UNCHANGED <<file_len, namespaces, histVars, csvVars>>

\* The page loop ends: return result, namespaces
Return ==
    /\ pc = "scan"
    /\ sector_pos >= file_len
    /\ pc' = "returned"
    /\ UNCHANGED <<file_len, sector_pos, page_num, page_state, namespaces, result,
                   pageVars, histVars, csvVars>>

(* ---------------- generate_nvs_csv.py ---------------- *)

\* json.dump of the namespace table: the ids become strings.
JsonNamespaces(table) == {<<DecStr(k), table[k]>> : k \in DOMAIN table}

\* sorted(namespace_map.items(), key=lambda x: int(x[0]))
RECURSIVE SortedItems(_)
SortedItems(items) ==
    IF items = {} THEN <<>>
    ELSE LET first == CHOOSE x \in items : \A y \in items : IntOf(x[1]) <= IntOf(y[1])
         IN  <<first>> \o SortedItems(items \ {first})

map_type_encoding(json_type) ==
    CASE json_type = "U8" -> "u8"
      [] json_type = "I8" -> "i8"
      [] json_type = "U16" -> "u16"
      [] json_type = "I16" -> "i16"
      [] json_type = "U32" -> "u32"
      [] json_type = "I32" -> "i32"
      [] json_type = "U64" -> "u64"
      [] json_type = "I64" -> "i64"
      [] json_type = "BLOB_DATA" -> "binary"
      [] OTHER -> "None"

Indices(s) == [k \in 1..Len(s) |-> k]

\* entries_by_namespace.get(ns_name, []), as indexes into entries.
EntriesByNamespace(entries, ns_name) ==
    LET InNs(k) == entries[k].namespace = ns_name
    IN  SelectSeq(Indices(entries), InNs)

\* The entries of a namespace that go to blob_data_by_key.
IsBlobData(e) == e.type = "BLOB_DATA"

\* Variant: BLOB_IDX entries are not skipped.
IsNonBlobKeepIdx(e) == e.type # "BLOB_DATA"

\* The entries of a namespace that go to non_blob_entries.
IsNonBlob(e) == e.type # "BLOB_DATA" /\ e.type # "BLOB_IDX"

\* The keys of blob_data_by_key, in insertion order.
RECURSIVE BlobKeys(_, _, _)
BlobKeys(entries, idxs, seen) ==
    IF idxs = <<>> THEN <<>>
    ELSE LET k == entries[Head(idxs)].key
         IN  IF k \in seen THEN BlobKeys(entries, Tail(idxs), seen)
             ELSE <<k>> \o BlobKeys(entries, Tail(idxs), seen \cup {k})

\* Where the stable sort puts x among the already sorted idxs.
InsertChunk(entries, sorted, x) ==
    LET NotAfter(k) == entries[k].chunk_index <= entries[x].chunk_index
        After(k) == entries[k].chunk_index > entries[x].chunk_index
    IN  SelectSeq(sorted, NotAfter) \o <<x>> \o SelectSeq(sorted, After)

\* blob_entries.sort(key=lambda x: x[0]): stable, ascending chunk index.
RECURSIVE SortChunks(_, _)
SortChunks(entries, idxs) ==
    IF idxs = <<>> THEN <<>>
    ELSE InsertChunk(entries, SortChunks(entries, SubSeq(idxs, 1, Len(idxs) - 1)),
                     idxs[Len(idxs)])

\* The bytes write_blob_file writes for blob_values.
write_blob_file(blob_values) ==
    Flatten([k \in 1..Len(blob_values) |-> FromHex(blob_values[k])])

Row(key, type, encoding, value, src) ==
    [key |-> key, type |-> type, encoding |-> encoding, value |-> value, src |-> src]

\* One pass of the namespace loop; nfiles blob files exist already.  A file
\* is named by its position in the list of files written (a fresh name).
\* src, the entries a row was made from, is history.
NamespaceBlock(entries, ns_name, nfiles) ==
    LET in_ns == EntriesByNamespace(entries, ns_name)
        IsBlob(k) == IsBlobData(entries[k])
        NonBlob(k) == IsNonBlob(entries[k])
        blobs == SelectSeq(in_ns, IsBlob)
        non_blob_entries == SelectSeq(in_ns, NonBlob)
        keys == BlobKeys(entries, blobs, {})
        Group(n) == LET HasKey(k) == entries[k].key = keys[n]
                    IN  SortChunks(entries, SelectSeq(blobs, HasKey))
        files == [n \in 1..Len(keys) |->
                    write_blob_file([m \in 1..Len(Group(n)) |-> entries[Group(n)[m]].value])]
        file_rows == [n \in 1..Len(keys) |->
                        Row(keys[n], "file", "binary", <<nfiles + n>>, Group(n))]
        data_rows == [n \in 1..Len(non_blob_entries) |->
                        LET e == entries[non_blob_entries[n]]
                        IN  Row(e.key, "data", map_type_encoding(e.type), e.value,
                                <<non_blob_entries[n]>>)]
    IN  [lines |-> <<Row(ns_name, "namespace", "", <<>>, <<>>)>> \o file_rows \o data_rows,
         files |-> files]

RECURSIVE CsvFold(_, _, _)
CsvFold(entries, items, acc) ==
    IF items = <<>> THEN acc
    ELSE LET b == NamespaceBlock(entries, Head(items)[2], Len(acc.files))
         IN  CsvFold(entries, Tail(items),
                     [lines |-> acc.lines \o b.lines, files |-> acc.files \o b.files])

\* csv_lines after the header row, and the blob files, for a structured record.
generate_csv(table, entries) ==
    CsvFold(entries, SortedItems(JsonNamespaces(table)), [lines |-> <<>>, files |-> <<>>])

\* main() of nvs_read.py writes the record, main() of generate_nvs_csv.py
\* loads it and encodes it.
GenerateCsv ==
    /\ pc = "returned"
    /\ LET out == generate_csv(namespaces, result)
       IN  /\ csv_lines' = out.lines
           /\ blob_files' = out.files
    /\ pc' = "csv"
    /\ UNCHANGED <<file_len, sector_pos, page_num, page_state, namespaces, result,
                   pageVars, histVars>>

Next ==
    \/ ReadHeader
    \/ HeaderError
    \/ SkipPage
    \/ BitmapError
    \/ LoadPage
    \/ SlotNotWritten
    \/ FetchError
    \/ FetchEntry
    \/ UnknownType
    \/ BadSpan
    \/ DecodeFixed
    \/ DecodeOversize
    \/ ContinuationError
    \/ DecodeVarLen
    \/ DecodeBlobIdx
    \/ DecodeAny
    \/ EndPage
    \/ Return
    \/ GenerateCsv

Spec == Init /\ [][Next]_vars

\* read_nvs_pages alone, on files holding the headers of ScanHeaderIn.
ScanNext ==
    \/ ReadHeader
    \/ HeaderError
    \/ SkipPage
    \/ BitmapError
    \/ LoadPage
    \/ SlotNotWritten
    \/ FetchError
    \/ ScanFetchEntry
    \/ UnknownType
    \/ BadSpan
    \/ DecodeFixed
    \/ DecodeOversize
    \/ ContinuationError
    \/ DecodeVarLen
    \/ DecodeBlobIdx
    \/ DecodeAny
    \/ EndPage
    \/ Return

\* The program is sequential and runs to completion: while a step of the scan
\* is possible, one is taken.
ScanSpec == Init /\ [][ScanNext]_vars /\ WF_vars(ScanNext)

(* ---------------- properties ---------------- *)

\* Every entry produced so far, in scan order.
AllEntries == result \o page_result

Max(S) == CHOOSE x \in S : \A y \in S : y <= x

\* The entries before position n that define namespace id k: U8 entries of
\* namespace id 0 whose value is k.
DefsBefore(n, k) ==
    {m \in 1..(n - 1) :
        AllEntries[m].type = "U8" /\ ns_ids[m] = 0 /\ AllEntries[m].value = <<k>>}

\* The page offsets below len, ascending.
PageOffsets(len) == [p \in 1..((len + PageSize - 1) \div PageSize) |-> PageSize * (p - 1)]

\* The claim's own wording of an out-of-range span.
SpanOutOfRange == entry.span = 0 \/ entry.span > NumSlots - i

KnownType == entry.type \in DOMAIN nvs_types

\* The namespace row that a row of csv_lines stands under.
NamespaceRowOf(lines, r) == Max({q \in 1..r : lines[q].type = "namespace"})

\* The rows of lines of the given type made from entry k.
RowsFrom(lines, type, k) ==
    {r \in 1..Len(lines) : lines[r].type = type /\ k \in Range(lines[r].src)}

\* C1 (as stated): in every state, each produced entry with namespace id k
\* carries NS_k when no definition of k was parsed before it, and otherwise the
\* key of the latest definition of k parsed before it.
C1_Original ==
    \A n \in 1..Len(AllEntries) :
        LET k == ns_ids[n]
            defs == DefsBefore(n, k)
        IN  AllEntries[n].namespace =
                IF defs = {} THEN FallbackName(k) ELSE AllEntries[Max(defs)].key

\* C1 (amended): in every state, each produced entry with namespace id k carries
\* the key of the latest definition of k parsed before it; when there is none it
\* carries NS_k for k other than 0 and "System" for k = 0.  Holding in every
\* state, the name of an entry is never changed by a later definition.
C1_CausalOrder ==
    \A n \in 1..Len(AllEntries) :
        LET k == ns_ids[n]
            defs == DefsBefore(n, k)
        IN  AllEntries[n].namespace =
                IF defs # {} THEN AllEntries[Max(defs)].key
                ELSE IF k = 0 THEN System
                ELSE FallbackName(k)

\* An entry of namespace 5 parsed before the definition of 5, the definition,
\* and an entry of namespace 5 parsed after it.
C1_Witness ==
    /\ Len(AllEntries) = 3
    /\ ns_ids = <<5, 0, 5>>
    /\ AllEntries[1].namespace = FallbackName(5)
    /\ AllEntries[2].type = "U8" /\ AllEntries[2].value = <<5>>
    /\ AllEntries[3].namespace = AllEntries[2].key

\* C2 (as stated): in every state the namespace table maps id 0 to "System".
C2_Original == 0 \in DOMAIN namespaces /\ namespaces[0] = System

\* C3: a step that decodes a Written slot with a known type code and span 0 or
\* span beyond the slots left in the page appends no entry, leaves the
\* namespace table alone and moves the cursor by exactly 1.
C3_SpanValidation ==
    [][(pc = "decode" /\ KnownType /\ SpanOutOfRange) =>
        (/\ page_result' = page_result
         /\ result' = result
         /\ namespaces' = namespaces
         /\ i' = i + 1)]_vars

\* A slot after the first entry of a page whose span runs past the page end.
C3_Witness ==
    /\ pc = "decode"
    /\ KnownType
    /\ entry.span > NumSlots - i
    /\ i > 0
    /\ page_result # <<>>

\* C4 (as stated): a step that decodes a Written STR, BLOB or BLOB_DATA slot
\* with a valid span and a declared size above 4032 appends no entry and moves
\* the cursor by exactly 1.
C4_Original ==
    [][(/\ pc = "decode"
        /\ KnownType
        /\ ~SpanOutOfRange
        /\ entry.type \in {33, 65, 66}
        /\ UnpackU(SubSeq(entry.data, 1, 2)) > 4032) =>
        (page_result' = page_result /\ i' = i + 1)]_vars

\* C5: the step taken on a page whose state is not ACTIVE or FULL appends no
\* entry, leaves the namespace table alone and moves the scan to the next page,
\* 4096 bytes on.
C5_SkipPage ==
    [][(pc = "header" /\ page_state \notin {"ACTIVE", "FULL"}) =>
        (/\ result' = result
         /\ page_result' = page_result
         /\ namespaces' = namespaces
         /\ sector_pos' = sector_pos + 4096
         /\ pc' = "scan")]_vars

\* The second page is not ACTIVE or FULL, after a first page that gave entries
\* and a namespace definition.
C5_Witness ==
    /\ pc = "header"
    /\ page_state \in {"EMPTY", "FREEING", "CORRUPT", "Unknown"}
    /\ sector_pos = PageSize
    /\ result # <<>>
    /\ 5 \in DOMAIN namespaces

\* C6: the scan returns; when it has returned it has read every page offset
\* below the file length once, in ascending order; every pass of the slot loop
\* moves the cursor forward, and the cursor never passes the end of the page.
C6_Terminates ==
    /\ <>(pc = "returned")
    /\ [](pc = "returned" => visited = PageOffsets(file_len))
    /\ [][(pc = "decode" \/ (pc = "parse" /\ pc' = "parse")) => i' >= i + 1]_vars
    /\ [](i \in 0..NumSlots)

\* The scan has returned from a two-page file whose first page gave entries and
\* whose second page raised a read error.
C6_Witness ==
    /\ pc = "returned"
    /\ file_len = PageSize + 20
    /\ visited = <<0, PageSize>>
    /\ result # <<>>

\* The (namespace name, key) pairs of the BLOB_DATA entries of a record.
BlobGroups(entries) ==
    {<<entries[k].namespace, entries[k].key>> :
        k \in {m \in 1..Len(entries) : entries[m].type = "BLOB_DATA"}}

\* The file rows of an output that stand under a namespace row named g[1] and
\* carry the key g[2].
FileRowsOf(out, g) ==
    {r \in 1..Len(out.lines) :
        /\ out.lines[r].type = "file"
        /\ out.lines[r].key = g[2]
        /\ out.lines[NamespaceRowOf(out.lines, r)].key = g[1]}

\* The orders of the BLOB_DATA entries of group g with ascending chunk index.
AscendingOrders(entries, g) ==
    LET members == {k \in 1..Len(entries) :
                        /\ entries[k].type = "BLOB_DATA"
                        /\ entries[k].namespace = g[1]
                        /\ entries[k].key = g[2]}
    IN  {o \in [1..Cardinality(members) -> members] :
            /\ \A a, b \in DOMAIN o : a < b =>
                  o[a] # o[b] /\ entries[o[a]].chunk_index <= entries[o[b]].chunk_index}

\* The bytes of the values of the entries o, concatenated.
Concat(entries, o) == Flatten([n \in DOMAIN o |-> FromHex(entries[o[n]].value)])

\* Every blob group of the record has exactly one file row in out, whose file
\* holds the group's values in ascending chunk index order.
OneFilePerGroup(entries, out) ==
    \A g \in BlobGroups(entries) :
        /\ Cardinality(FileRowsOf(out, g)) = 1
        /\ \A r \in FileRowsOf(out, g) :
              \E o \in AscendingOrders(entries, g) :
                  out.files[out.lines[r].value[1]] = Concat(entries, o)

Perms(n) == {f \in [1..n -> 1..n] : \A a, b \in 1..n : a # b => f[a] # f[b]}

Permuted(entries, f) == [n \in 1..Len(entries) |-> entries[f[n]]]

\* The file of group g in an output that has exactly one.
FileOf(out, g) == out.files[out.lines[CHOOSE r \in FileRowsOf(out, g) : TRUE].value[1]]

\* C7 (as stated): for the record read from the file and for every permutation
\* of its entries, each (namespace, key) with BLOB_DATA entries gets exactly one
\* file row and one file, holding the values in ascending chunk index order,
\* and the file is the same for every permutation.
C7_Original ==
    pc = "csv" =>
        \A f \in Perms(Len(result)) :
            LET out == generate_csv(namespaces, Permuted(result, f))
            IN  /\ OneFilePerGroup(Permuted(result, f), out)
                /\ \A g \in BlobGroups(result) : FileOf(out, g) = blob_files[
                       csv_lines[CHOOSE r \in FileRowsOf([lines |-> csv_lines, files |-> blob_files], g) : TRUE].value[1]]

\* C8: no entry produced has type ANY; a step that decodes a Written slot of
\* type code 0xFF appends nothing and moves the cursor by 1; no row of the CSV
\* output is made from an entry of type BLOB_IDX.
C8_NoAnyNoBlobIdx ==
    /\ [](\A n \in 1..Len(AllEntries) : AllEntries[n].type # "ANY")
    /\ [][(pc = "decode" /\ entry.type = 255) =>
            (page_result' = page_result /\ i' = i + 1)]_vars
    /\ [](pc = "csv" =>
            \A r \in 1..Len(csv_lines) : \A k \in Range(csv_lines[r].src) :
                result[k].type # "BLOB_IDX")

\* The encoder has run on a record holding a BLOB_IDX entry whose namespace has
\* a row, next to an entry of the same namespace that has a data row.
C8_Witness ==
    /\ pc = "csv"
    /\ \E k, m \in 1..Len(result) :
          /\ result[k].type = "BLOB_IDX"
          /\ result[m].namespace = result[k].namespace
          /\ RowsFrom(csv_lines, "data", m) # {}

\* C9: a step that appends an entry moves the cursor by the entry's span; the
\* entries of the page being parsed start at strictly increasing slots, their
\* slot ranges are pairwise disjoint and lie inside the page, and the cursor is
\* past all of them.
C9_SpanAdvance ==
    /\ [][Len(page_result') = Len(page_result) + 1 => i' = i + entry.span]_vars
    /\ [](\A n \in 1..Len(page_result) :
            /\ starts[n] >= 0
            /\ page_result[n].span >= 1
            /\ starts[n] + page_result[n].span - 1 <= NumSlots - 1
            /\ starts[n] + page_result[n].span <= i
            /\ \A m \in 1..(n - 1) :
                  starts[m] + page_result[m].span - 1 < starts[n])

\* An entry of span 2 whose second slot is Written in the bitmap, followed by
\* another entry of the same page.
C9_Witness ==
    /\ pc = "parse"
    /\ Len(page_result) = 2
    /\ page_result[1].span = 2
    /\ bitmap[starts[1] + 2] = Written
    /\ starts[2] = starts[1] + 2

\* C10 (as stated): every entry of the record that is neither BLOB_DATA nor
\* BLOB_IDX has exactly one data row in the CSV output, and that row stands
\* under the namespace row of the entry's own namespace.
C10_Original ==
    pc = "csv" =>
        \A k \in 1..Len(result) :
            IsNonBlob(result[k]) =>
                /\ Cardinality(RowsFrom(csv_lines, "data", k)) = 1
                /\ \A r \in RowsFrom(csv_lines, "data", k) :
                      csv_lines[NamespaceRowOf(csv_lines, r)].key = result[k].namespace

====
